---- MODULE Spec2Model ----
(***************************************************************************)
(* A model of payments_payu/provider.py: the PayU provider of              *)
(* django-payments.  The state is one Payment object, its database row,    *)
(* the provider's cached access token and the handler that is running.     *)
(*                                                                         *)
(* JSON objects are functions from key strings to values, so "key in d"    *)
(* is  k \in DOMAIN d  and a missing key is a KeyError.  A Decimal is an   *)
(* integer that counts units of 1/DecimalDen.  A Python exception is a     *)
(* result record of kind "raise".                                          *)
(***************************************************************************)
EXTENDS Integers, Sequences, FiniteSets, TLC

VARIABLES payment, db, token, get_refund_description, call, last, ops

vars == <<payment, db, token, get_refund_description, call, last, ops>>

(***************************************************************************)
(* Bounds of the model.                                                    *)
(***************************************************************************)
\* handler invocations in one behaviour
MaxOps == 2
\* payment.total in minor units
TotalMinor == 3
\* the largest amount, in minor units, that a gateway message carries
MaxMinor == 4
\* gateway requests of one post_request call the model lets through
MaxRequests == 6
\* the largest price, in thousandths of a unit, given to the money codec
MaxMills == 12
\* the callers that share one provider
MaxCallers == 2

(***************************************************************************)
(* Money codec.                                                            *)
(***************************************************************************)
DecimalDen == 100000

SupportedCurrencies == {"PLN", "EUR", "USD", "CZK", "GBP"}

\* every entry is Decimal(100), a whole number
CURRENCY_SUB_UNIT == [c \in SupportedCurrencies |-> 100]

CENTS == DecimalDen \div 100

\* Decimal.quantize(exp, rounding=ROUND_HALF_UP): ties go away from zero
QuantizeHalfUp(a, exp) ==
    IF a >= 0
    THEN ((a + (exp \div 2)) \div exp) * exp
    ELSE 0 - ((((0 - a) + (exp \div 2)) \div exp) * exp)

\* int(Decimal): truncation towards zero
DecToInt(a) ==
    IF a >= 0 THEN a \div DecimalDen ELSE 0 - ((0 - a) \div DecimalDen)

quantize_price(price, currency) ==
    DecToInt(QuantizeHalfUp(price * CURRENCY_SUB_UNIT[currency], CENTS))

\* a quotient cut down to whole units of the currency
dequantize_price_whole(price, currency) ==
    (price \div CURRENCY_SUB_UNIT[currency]) * DecimalDen

\* Decimal(price) / CURRENCY_SUB_UNIT[currency]; price is an integer
dequantize_price(price, currency) ==
    (price * DecimalDen) \div CURRENCY_SUB_UNIT[currency]

(***************************************************************************)
(* JSON objects.                                                           *)
(***************************************************************************)
EmptyDict == [k \in {} |-> TRUE]

Has(d, k) == k \in DOMAIN d

\* {**old, **new}
Merge(old, new) ==
    [k \in (DOMAIN old) \cup (DOMAIN new) |->
        IF k \in DOMAIN new THEN new[k] ELSE old[k]]

(***************************************************************************)
(* Results of a handler.                                                   *)
(***************************************************************************)
Raise(exc, msg) == [kind |-> "raise", exc |-> exc, msg |-> msg]

HttpResponse(content, status) ==
    [kind |-> "response", content |-> content, status |-> status]

Return(value) == [kind |-> "return", value |-> value]

\* the Payment object and its row, and what the handler gave back
Outcome(p, d, ret) == [payment |-> p, db |-> d, ret |-> ret]

(***************************************************************************)
(* The Payment record.                                                     *)
(***************************************************************************)
PaymentTotal == dequantize_price(TotalMinor, "USD")

NewPayment ==
    [ status |-> "WAITING",
      fraud_status |-> "UNKNOWN",
      total |-> PaymentTotal,
      currency |-> "USD",
      captured_amount |-> 0,
      transaction_id |-> "None",
      message |-> <<>>,
      token |-> "bar_token",
      pay_link |-> "None",
      extra_data |-> EmptyDict ]

\* a payment that an earlier order has already confirmed
ConfirmedPayment ==
    [NewPayment EXCEPT !.status = "CONFIRMED",
                       !.captured_amount = PaymentTotal,
                       !.transaction_id = "o1"]

\* payment.save()
Save(p) == p

\* payment.save(update_fields=["status", "message"])
SaveStatusMessage(p, d) == [d EXCEPT !.status = p.status, !.message = p.message]

\* type(payment).objects.filter(pk=payment.pk).update(captured_amount=...)
UpdateCapturedAmount(p, d) == [d EXCEPT !.captured_amount = p.captured_amount]

change_status(p, d, status) ==
    LET q == [p EXCEPT !.status = status, !.message = <<>>]
    IN  [payment |-> q, db |-> SaveStatusMessage(q, d)]

change_fraud_status(p, status, message) ==
    LET q == [p EXCEPT !.fraud_status = status, !.message = <<message>>]
    IN  [payment |-> q, db |-> Save(q)]

add_extra_data(p, new_extra_data) ==
    LET q == [p EXCEPT !.extra_data = Merge(@, new_extra_data)]
    IN  [payment |-> q, db |-> Save(q)]

\* a journal that keeps the latest notification only
add_new_status_latest(p, new_status) ==
    LET q == [p EXCEPT !.extra_data =
                 Merge(@, [statuses |-> <<new_status>>])]
    IN  [payment |-> q, db |-> Save(q)]

add_new_status(p, new_status) ==
    LET old == IF Has(p.extra_data, "statuses")
               THEN p.extra_data
               ELSE Merge(p.extra_data, [statuses |-> <<>>])
        q == [p EXCEPT !.extra_data =
                 [old EXCEPT !["statuses"] = Append(@, new_status)]]
    IN  [payment |-> q, db |-> Save(q)]

(***************************************************************************)
(* Notifications: process_notification.                                    *)
(***************************************************************************)
second_key == "second_key"

\* hashlib.md5(data).hexdigest(): one digest per input
Md5HexDigest(data) == [md5 |-> data]

\* request.body + key.encode("utf8")
SignedBytes(body, key) == <<body, key>>

\* header.split(";") gave the parts; x.split("=")[1] needs two pieces
SplitOk(parts) == \A j \in DOMAIN parts : Len(parts[j]) >= 2

\* header_data[key] = value, a later part overwriting an earlier one
HeaderData(parts) ==
    [k \in {parts[j][1] : j \in DOMAIN parts} |->
        LET js == {j \in DOMAIN parts : parts[j][1] = k}
            jm == CHOOSE j \in js : \A i \in js : i <= j
        IN  parts[jm][2]]

\* a table that sends WAITING_FOR_CONFIRMATION to WAITING
status_map_waiting ==
    [k \in {"COMPLETED", "PENDING", "WAITING_FOR_CONFIRMATION", "CANCELED", "NEW"} |->
        CASE k = "COMPLETED" -> "CONFIRMED"
          [] k = "PENDING" -> "INPUT"
          [] k = "WAITING_FOR_CONFIRMATION" -> "WAITING"
          [] k = "CANCELED" -> "REJECTED"
          [] k = "NEW" -> "WAITING"]

status_map ==
    [k \in {"COMPLETED", "PENDING", "WAITING_FOR_CONFIRMATION", "CANCELED", "NEW"} |->
        CASE k = "COMPLETED" -> "CONFIRMED"
          [] k = "PENDING" -> "INPUT"
          [] k = "WAITING_FOR_CONFIRMATION" -> "INPUT"
          [] k = "CANCELED" -> "REJECTED"
          [] k = "NEW" -> "WAITING"]

\* refunded_price > payment.captured_amount
RefundDepletesStrict(refunded_price, captured_amount) == refunded_price > captured_amount

\* a subtraction that is never held back
RefundDepletesNever(refunded_price, captured_amount) == FALSE

\* refunded_price >= payment.captured_amount
RefundDepletes(refunded_price, captured_amount) == refunded_price >= captured_amount

\* the subtraction left out
CapturedAfterRefundKept(captured_amount, refunded_price) == captured_amount

\* the refund taken from the payment's total, whatever was taken before
CapturedAfterRefundFromTotal(captured_amount, refunded_price) ==
    PaymentTotal - refunded_price

\* payment.captured_amount -= refunded_price
CapturedAfterRefund(captured_amount, refunded_price) == captured_amount - refunded_price

\* every refund that is not canceled taken for a finalized one
RefundIsNotCanceled(refund) == refund["status"] # "CANCELED"

\* data["refund"]["status"] == "FINALIZED"
RefundIsFinalized(refund) == refund["status"] = "FINALIZED"

\* the "refund" in data branch; p and d are the payment after add_new_status
RefundNotification(p, d, data) ==
    LET refund == data["refund"]
    IN  IF refund["currencyCode"] \notin DOMAIN CURRENCY_SUB_UNIT
        THEN Outcome(p, d, Raise("KeyError", refund["currencyCode"]))
        ELSE
        LET refunded_price ==
                dequantize_price(refund["amount"], refund["currencyCode"])
        IN  IF RefundIsFinalized(refund)
            THEN LET q == [p EXCEPT !.message =
                                Append(@, refund["reasonDescription"])]
                 IN  IF RefundDepletes(refunded_price, q.captured_amount)
                     THEN LET w == change_status(q, d, "REFUNDED")
                          IN  Outcome(w.payment, w.db, HttpResponse("ok", 200))
                     ELSE LET r == [q EXCEPT !.captured_amount =
                                        CapturedAfterRefund(@, refunded_price)]
                          IN  Outcome(r, Save(r), HttpResponse("ok", 200))
            ELSE Outcome(p, d, Raise("Exception", "Refund was not finelized"))

\* "totalAmount" in data["order"], whatever the status
CapturesAnyTotal(status, order) == Has(order, "totalAmount")

\* status == CONFIRMED and "totalAmount" in data["order"]
CapturesTotal(status, order) == status = "CONFIRMED" /\ Has(order, "totalAmount")

\* the total added to what was captured before
CapturedAfterOrderAdded(captured_amount, total_price) == captured_amount + total_price

\* payment.captured_amount = dequantize_price(totalAmount, currencyCode)
CapturedAfterOrder(captured_amount, total_price) == total_price

\* the order branch; p and d are the payment after add_new_status
OrderNotification(p, d, data) ==
    IF ~Has(data, "order")
    THEN Outcome(p, d, Raise("KeyError", "order"))
    ELSE
    LET order == data["order"]
    IN  IF order["status"] \notin DOMAIN status_map
        THEN Outcome(p, d, Raise("KeyError", order["status"]))
        ELSE
        LET status == status_map[order["status"]]
        IN  IF CapturesTotal(status, order)
            THEN IF ~Has(order, "currencyCode")
                 THEN Outcome(p, d, Raise("KeyError", "currencyCode"))
                 ELSE IF order["currencyCode"] \notin DOMAIN CURRENCY_SUB_UNIT
                 THEN Outcome(p, d, Raise("KeyError", order["currencyCode"]))
                 ELSE LET q == [p EXCEPT !.captured_amount =
                                    CapturedAfterOrder(@,
                                        dequantize_price(order["totalAmount"],
                                                         order["currencyCode"]))]
                          w == change_status(q, UpdateCapturedAmount(q, d), status)
                      IN  Outcome(w.payment, w.db, HttpResponse("ok", 200))
            ELSE LET w == change_status(p, d, status)
                 IN  Outcome(w.payment, w.db, HttpResponse("ok", 200))

\* algorithm == "MD5" and incoming_signature == signature
SignatureVerified(header_data, body) ==
    /\ header_data["algorithm"] = "MD5"
    /\ header_data["signature"] = Md5HexDigest(SignedBytes(body, second_key))

process_notification(p, d, request) ==
    IF ~request.body.json
    THEN Outcome(p, d, Raise("JSONDecodeError", "body"))
    ELSE IF ~request.has_header
    THEN Outcome(p, d, Raise("PayuApiError", "Malformed POST"))
    ELSE IF ~SplitOk(request.header)
    THEN Outcome(p, d, Raise("IndexError", "split"))
    ELSE
    LET header_data == HeaderData(request.header)
    IN  IF ~Has(header_data, "signature")
        THEN Outcome(p, d, Raise("KeyError", "signature"))
        ELSE IF ~Has(header_data, "algorithm")
        THEN Outcome(p, d, Raise("KeyError", "algorithm"))
        ELSE IF SignatureVerified(header_data, request.body)
        THEN LET data == request.body.data
                 w == add_new_status(p, data)
             IN  IF Has(data, "refund")
                 THEN RefundNotification(w.payment, w.db, data)
                 ELSE OrderNotification(w.payment, w.db, data)
        ELSE Outcome(p, d, HttpResponse("not ok", 500))

\* process_data for a request whose CONTENT_TYPE is application/json
process_data(p, d, request) == process_notification(p, d, request)

(***************************************************************************)
(* The notifications the webhook receives.                                 *)
(***************************************************************************)
NotJsonBody == [json |-> FALSE]

JsonBody(data) == [json |-> TRUE, data |-> data]

RefundBody(amount, currencyCode, status) ==
    JsonBody([ order |-> [status |-> "COMPLETED"],
               refund |-> [ amount |-> amount,
                            currencyCode |-> currencyCode,
                            status |-> status,
                            reasonDescription |-> "reason" ] ])

RefundBodies ==
    {RefundBody(a, "USD", "FINALIZED") : a \in {0, 1, TotalMinor - 1, TotalMinor, MaxMinor}}
    \cup {RefundBody(1, "USD", "PENDING"), RefundBody(1, "HUF", "FINALIZED")}

OrderStatuses ==
    {"COMPLETED", "PENDING", "WAITING_FOR_CONFIRMATION", "CANCELED", "NEW", "REJECTED"}

OrderBodies ==
    {JsonBody([order |-> [status |-> s]]) : s \in OrderStatuses}
    \cup {JsonBody([order |-> [status |-> s, totalAmount |-> a, currencyCode |-> "USD"]]) :
            s \in {"COMPLETED", "PENDING"}, a \in {TotalMinor, MaxMinor}}
    \cup {JsonBody([order |-> [status |-> "COMPLETED", totalAmount |-> TotalMinor,
                               currencyCode |-> "HUF"]])}

Bodies == RefundBodies \cup OrderBodies \cup {JsonBody(EmptyDict), NotJsonBody}

\* "sender=checkout;signature=<hex>;algorithm=<name>;content=DOCUMENT"
SignatureHeader(signature, algorithm) ==
    << <<"sender", "checkout">>, <<"signature", signature>>,
       <<"algorithm", algorithm>>, <<"content", "DOCUMENT">> >>

Request(body, header) == [body |-> body, has_header |-> TRUE, header |-> header]

\* signed by the gateway with the shared key
GatewayRequests ==
    {Request(b, SignatureHeader(Md5HexDigest(SignedBytes(b, second_key)), "MD5")) :
        b \in Bodies}

SomeBodies ==
    {RefundBody(1, "USD", "FINALIZED"), NotJsonBody,
     JsonBody([order |-> [status |-> "COMPLETED", totalAmount |-> TotalMinor,
                          currencyCode |-> "USD"]])}

\* signed with another key, signed for another body, or another algorithm
ForgedRequests ==
    {Request(b, SignatureHeader(Md5HexDigest(SignedBytes(b, "other_key")), "MD5")) :
        b \in SomeBodies}
    \cup {Request(b, SignatureHeader(Md5HexDigest(SignedBytes(JsonBody(EmptyDict), second_key)), "MD5")) :
        b \in SomeBodies}
    \cup {Request(b, SignatureHeader(Md5HexDigest(SignedBytes(b, second_key)), "SHA-256")) :
        b \in SomeBodies}

\* no header, a part without "=", no signature key, no algorithm key
MalformedRequests ==
    {[body |-> b, has_header |-> FALSE, header |-> <<>>] : b \in SomeBodies}
    \cup {Request(b, << <<"signature", Md5HexDigest(SignedBytes(b, second_key))>>,
                        <<"algorithm">> >>) : b \in SomeBodies}
    \cup {Request(b, << <<"algorithm", "MD5">> >>) : b \in SomeBodies}
    \cup {Request(b, << <<"signature", Md5HexDigest(SignedBytes(b, second_key))>> >>) :
            b \in SomeBodies}

Requests == GatewayRequests \cup ForgedRequests \cup MalformedRequests

(***************************************************************************)
(* The access token: get_access_token and the retry loop of post_request.  *)
(***************************************************************************)
retry_count == 5

\* for i in range(1, self.retry_count)
RetryRange == 1..(retry_count - 1)

\* a loop whose variable does not advance
NextAttemptStuck(i) == i

\* the loop variable of the next iteration
NextAttempt(i) == i + 1

\* any response that carries a status taken for an auth failure
IsAuthFailureAnyStatus(response_dict) ==
    \/ Has(response_dict, "error") /\ response_dict["error"] = "invalid_token"
    \/ Has(response_dict, "status")

\* response_dict.get("error") == "invalid_token" or
\* response_dict["status"]["statusCode"] == "UNAUTHORIZED"
IsAuthFailure(response_dict) ==
    \/ Has(response_dict, "error") /\ response_dict["error"] = "invalid_token"
    \/ /\ Has(response_dict, "status")
       /\ Has(response_dict["status"], "statusCode")
       /\ response_dict["status"]["statusCode"] = "UNAUTHORIZED"

NotJson == [json |-> FALSE]

Json(data) == [json |-> TRUE, data |-> data]

\* what the auth endpoint may answer
AuthTokens == {"t1"}

AuthAnswers ==
    {Json([access_token |-> t, token_type |-> "bearer"]) : t \in AuthTokens}
    \cup {Json([error |-> "invalid_client"]), NotJson}

\* the token, or the PayuApiError
get_access_token(answer) ==
    IF ~answer.json
    THEN Raise("PayuApiError", "response.text")
    ELSE IF ~Has(answer.data, "access_token")
    THEN Raise("PayuApiError", "response_dict")
    ELSE Return(answer.data["access_token"])

\* the gateway's answers that make post_request ask for a new token
AuthFailureAnswers ==
    { Json([error |-> "invalid_token", error_description |-> "Access token expired"]),
      Json([status |-> [statusCode |-> "UNAUTHORIZED"]]) }

(***************************************************************************)
(* Order creation: create_order.                                           *)
(***************************************************************************)
continueUrl == "continue_url"

failureUrl == "failure_url"

\* payment.get_payment_url()
payment_url == "payment_url"

\* response_dict["payMethods"]["payMethod"] with "value" and the card's fields
PayMethodComplete(payMethods) ==
    /\ Has(payMethods, "payMethod")
    /\ Has(payMethods["payMethod"], "value")
    /\ Has(payMethods["payMethod"], "card")
    /\ \A k \in {"expirationYear", "expirationMonth", "number"} :
           Has(payMethods["payMethod"]["card"], k)

set_renew_token(p, value) == [p EXCEPT !.token = value]

\* the "PayU API error" log line reads response_dict["status"]["codeLiteral"]
LogsApiError(response_dict) ==
    ~Has(response_dict, "status") \/ Has(response_dict["status"], "codeLiteral")

\* the duplicate order taken for any other failure
AlreadyProcessedNever(statusCode, status) == FALSE

\* statusCode == "ERROR_ORDER_NOT_UNIQUE" and payment.status == CONFIRMED
AlreadyProcessed(statusCode, status) ==
    statusCode = "ERROR_ORDER_NOT_UNIQUE" /\ status = "CONFIRMED"

\* a failed order marked as rejected
FailureStatusRejected == "REJECTED"

\* PaymentStatus.ERROR
FailureStatus == "ERROR"

\* the statements after the try block
CreateOrderFailed(p, d, response_dict) ==
    IF ~Has(response_dict, "status")
    THEN LET w == change_status(p, d, FailureStatus)
         IN  Outcome(w.payment, w.db, Return(failureUrl))
    ELSE IF ~Has(response_dict["status"], "statusCode")
    THEN Outcome(p, d, Raise("KeyError", "statusCode"))
    ELSE
    LET statusCode == response_dict["status"]["statusCode"]
        w == IF statusCode = "BUSINESS_ERROR"
             THEN change_fraud_status(p, "REJECT", "response_dict")
             ELSE add_extra_data(p, response_dict)
    IN  IF AlreadyProcessed(statusCode, w.payment.status)
        THEN Outcome(w.payment, w.db, Return(""))
        ELSE LET e == change_status(w.payment, w.db, FailureStatus)
             IN  IF LogsApiError(response_dict)
                 THEN Outcome(e.payment, e.db, Return(failureUrl))
                 ELSE Outcome(e.payment, e.db, Raise("KeyError", "codeLiteral"))

\* the continue URL whoever asked
CompletedInteractive(auto_renew) == continueUrl

\* return "success" if auto_renew, else payment_processor.continueUrl
Completed(auto_renew) == IF auto_renew THEN "success" ELSE continueUrl

\* the gateway's page handed back as it is for 3DS
CvvContinuesAtRedirect(redirectUri) == redirectUri

\* return payment.get_payment_url()
CvvContinuesAt(redirectUri) == payment_url

\* the branches on response_dict["status"]["statusCode"] inside the try block;
\* p and d are the payment after add_extra_data stored card_response
CreateOrderClassified(p, d, response_dict, auto_renew) ==
    IF ~Has(response_dict, "status") \/ ~Has(response_dict["status"], "statusCode")
    THEN CreateOrderFailed(p, d, response_dict)
    ELSE
    LET statusCode == response_dict["status"]["statusCode"]
    IN  CASE statusCode = "SUCCESS" ->
               IF Has(response_dict, "redirectUri")
               THEN LET q == [p EXCEPT !.pay_link = response_dict["redirectUri"]]
                    IN  Outcome(q, Save(q), Return(response_dict["redirectUri"]))
               ELSE Outcome(p, d, Return(Completed(auto_renew)))
          [] statusCode = "WARNING_CONTINUE_CVV" ->
               IF Has(response_dict, "redirectUri")
               THEN LET w == add_extra_data(p, [cvv_url |-> response_dict["redirectUri"]])
                    IN  Outcome(w.payment, w.db,
                                Return(CvvContinuesAt(response_dict["redirectUri"])))
               ELSE CreateOrderFailed(p, d, response_dict)
          [] statusCode = "WARNING_CONTINUE_3DS" ->
               IF Has(response_dict, "redirectUri")
               THEN LET w == add_extra_data(p,
                                 [k \in {"3ds_url"} |-> response_dict["redirectUri"]])
                    IN  Outcome(w.payment, w.db, Return(response_dict["redirectUri"]))
               ELSE CreateOrderFailed(p, d, response_dict)
          [] OTHER -> CreateOrderFailed(p, d, response_dict)

\* the assignment left out
SetTransactionIdSkipped(p, response_dict) == p

\* payment.transaction_id = response_dict["orderId"]
SetTransactionId(p, response_dict) ==
    [p EXCEPT !.transaction_id = response_dict["orderId"]]

\* create_order once post_request has returned response_dict
create_order(p, d, response_dict, auto_renew) ==
    IF ~Has(response_dict, "orderId")
    THEN CreateOrderFailed(p, d, response_dict)
    ELSE
    LET p1 == SetTransactionId(p, response_dict)
    IN  IF Has(response_dict, "payMethods")
           /\ ~PayMethodComplete(response_dict["payMethods"])
        THEN CreateOrderFailed(p1, d, response_dict)
        ELSE
        LET p2 == IF Has(response_dict, "payMethods")
                  THEN set_renew_token(p1,
                           response_dict["payMethods"]["payMethod"]["value"])
                  ELSE p1
            w == add_extra_data(p2, [card_response |-> response_dict])
        IN  CreateOrderClassified(w.payment, w.db, response_dict, auto_renew)

(***************************************************************************)
(* The order endpoint's answers.                                           *)
(***************************************************************************)
StatusCodes ==
    {"SUCCESS", "WARNING_CONTINUE_CVV", "WARNING_CONTINUE_3DS", "BUSINESS_ERROR",
     "ERROR_ORDER_NOT_UNIQUE", "FOO"}

Status(statusCode) == [statusCode |-> statusCode]

StatusLiteral(statusCode) == [statusCode |-> statusCode, codeLiteral |-> "literal"]

CardPayMethods ==
    [payMethod |-> [value |-> "card_token", type |-> "CARD_TOKEN",
                    card |-> [expirationYear |-> "2021", expirationMonth |-> "1",
                              number |-> "1234xxx"]]]

PblPayMethods == [payMethod |-> [value |-> "m", type |-> "PBL"]]

OrderResponses ==
    \* every status code with codeLiteral, some without
    {[orderId |-> "o1", redirectUri |-> "redirect_uri", status |-> st] :
        st \in {StatusLiteral(c) : c \in StatusCodes}
               \cup {Status(c) : c \in {"SUCCESS", "BUSINESS_ERROR", "FOO"}}}
    \* no redirectUri
    \cup {[orderId |-> "o1", status |-> StatusLiteral(c)] :
            c \in {"SUCCESS", "WARNING_CONTINUE_CVV", "WARNING_CONTINUE_3DS"}}
    \cup {[orderId |-> "o1", status |-> Status("SUCCESS")]}
    \* no orderId
    \cup {[redirectUri |-> "redirect_uri", status |-> st] :
            st \in {Status("SUCCESS"), StatusLiteral("SUCCESS"),
                    StatusLiteral("WARNING_CONTINUE_CVV"), StatusLiteral("BUSINESS_ERROR")}}
    \* another order
    \cup {[orderId |-> "o2", redirectUri |-> "redirect_uri", status |-> Status("SUCCESS")]}
    \* a status without statusCode, and no status
    \cup {[orderId |-> "o1", redirectUri |-> "redirect_uri",
           status |-> [codeLiteral |-> "literal"]],
          [redirectUri |-> "redirect_uri", status |-> [codeLiteral |-> "literal"]],
          [orderId |-> "o1", redirectUri |-> "redirect_uri"],
          [redirectUri |-> "redirect_uri"]}
    \* payMethods
    \cup {[orderId |-> "o1", redirectUri |-> "redirect_uri", status |-> Status("SUCCESS"),
           payMethods |-> pm] : pm \in {CardPayMethods, PblPayMethods}}
    \cup {[orderId |-> "o2", payMethods |-> PblPayMethods]}
    \cup {[orderId |-> "o1", status |-> Status("SUCCESS"), payMethods |-> pm] :
            pm \in {CardPayMethods, PblPayMethods}}
    \cup {[orderId |-> "o1", redirectUri |-> "redirect_uri",
           status |-> Status("WARNING_CONTINUE_3DS"), payMethods |-> PblPayMethods]}
    \* the bare error of a duplicate order
    \cup {[status |-> Status("ERROR_ORDER_NOT_UNIQUE")]}

OrderAnswers == {Json(r) : r \in OrderResponses} \cup AuthFailureAnswers \cup {NotJson}

(***************************************************************************)
(* Refund requests: refund.                                                *)
(***************************************************************************)
NoAmount == [given |-> FALSE]

Amount(value) == [given |-> TRUE, value |-> value]

\* the append, and captured_amount lowered by the refund's amount at once
AppendRefundResponseAndDeduct(p, response) ==
    LET old == IF Has(p.extra_data, "refund_responses")
               THEN p.extra_data
               ELSE Merge(p.extra_data, [refund_responses |-> <<>>])
        taken == IF Has(response, "refund") /\ Has(response["refund"], "amount")
                 THEN response["refund"]["amount"] * CENTS
                 ELSE 0
    IN  [p EXCEPT !.extra_data =
                      [old EXCEPT !["refund_responses"] = Append(@, response)],
                  !.captured_amount = @ - taken]

\* the append left out for a response the journal already holds
AppendRefundResponseOnce(p, response) ==
    LET old == IF Has(p.extra_data, "refund_responses")
               THEN p.extra_data
               ELSE Merge(p.extra_data, [refund_responses |-> <<>>])
        held == \E n \in 1..Len(old["refund_responses"]) :
                    old["refund_responses"][n] = response
    IN  [p EXCEPT !.extra_data =
            IF held THEN old
            ELSE [old EXCEPT !["refund_responses"] = Append(@, response)]]

\* payment_extra_data.setdefault("refund_responses", []).append(response)
AppendRefundResponse(p, response) ==
    LET old == IF Has(p.extra_data, "refund_responses")
               THEN p.extra_data
               ELSE Merge(p.extra_data, [refund_responses |-> <<>>])
    IN  [p EXCEPT !.extra_data =
            [old EXCEPT !["refund_responses"] = Append(@, response)]]

\* a finalized refund accepted like a pending one
RefundStatusCheckLenient(refund_status) ==
    IF refund_status = "CANCELED"
    THEN Raise("ValueError", "canceled")
    ELSE IF refund_status \notin {"PENDING", "FINALIZED"}
    THEN Raise("PayuApiError", "invalid status")
    ELSE Return("PENDING")

\* if refund_status == "CANCELED" ... elif "FINALIZED" ... elif not in {"PENDING"}
RefundStatusCheck(refund_status) ==
    IF refund_status = "CANCELED"
    THEN Raise("ValueError", "canceled")
    ELSE IF refund_status = "FINALIZED"
    THEN Raise("NotImplementedError", "FINALIZED already")
    ELSE IF refund_status \notin {"PENDING"}
    THEN Raise("PayuApiError", "invalid status")
    ELSE Return("PENDING")

\* the refund status looked at before the order id
RefundMatchesStatusFirst(q, e, response, amount) ==
    LET rf == response["refund"]
    IN  IF RefundStatusCheck(rf["status"]).kind = "raise"
        THEN Outcome(q, e, RefundStatusCheck(rf["status"]))
        ELSE IF response["orderId"] # q.transaction_id
        THEN Outcome(q, e, Raise("NotImplementedError", "different order_id"))
        ELSE IF rf["currencyCode"] # q.currency
        THEN Outcome(q, e, Raise("NotImplementedError", "different currency"))
        ELSE IF amount.given
                /\ dequantize_price(rf["amount"], rf["currencyCode"]) # amount.value
        THEN Outcome(q, e, Raise("NotImplementedError", "different amount"))
        ELSE Outcome(q, e, Return(0))

\* the comparisons of a complete response with the payment and the request:
\* order id, refund status, currency, amount
RefundMatches(q, e, response, amount) ==
    LET rf == response["refund"]
    IN  IF response["orderId"] # q.transaction_id
        THEN Outcome(q, e, Raise("NotImplementedError", "different order_id"))
        ELSE IF RefundStatusCheck(rf["status"]).kind = "raise"
        THEN Outcome(q, e, RefundStatusCheck(rf["status"]))
        ELSE IF rf["currencyCode"] # q.currency
        THEN Outcome(q, e, Raise("NotImplementedError", "different currency"))
        ELSE IF amount.given
                /\ dequantize_price(rf["amount"], rf["currencyCode"]) # amount.value
        THEN Outcome(q, e, Raise("NotImplementedError", "different amount"))
        ELSE Outcome(q, e, Return(0))

\* refund once post_request has returned response
refund(p, d, response, amount) ==
    LET q == AppendRefundResponse(p, response)
        e == Save(q)
        refund_id == IF Has(response, "refund") /\ Has(response["refund"], "refundId")
                     THEN response["refund"]["refundId"]
                     ELSE "None"
    IN  IF ~Has(response, "status") \/ ~Has(response["status"], "statusCode")
        THEN Outcome(q, e, Raise("PayuApiError", "invalid response"))
        ELSE IF response["status"]["statusCode"] # "SUCCESS"
        THEN Outcome(q, e, Raise("ValueError", "failed"))
        ELSE IF refund_id = "None"
        THEN Outcome(q, e, Raise("PayuApiError", "invalid response"))
        ELSE
        LET rf == response["refund"]
        IN  IF \/ ~Has(response, "orderId")
               \/ ~Has(rf, "status")
               \/ ~Has(rf, "currencyCode")
               \/ ~Has(rf, "amount")
               \/ rf["currencyCode"] \notin DOMAIN CURRENCY_SUB_UNIT
            THEN Outcome(q, e, Raise("PayuApiError", "invalid response"))
            ELSE RefundMatches(q, e, response, amount)

\* the amounts a caller asks to refund
RefundAmounts ==
    {NoAmount} \cup {Amount(dequantize_price(a, "USD")) : a \in {1, TotalMinor}}

RefundOf(refundId, amount, currencyCode, status) ==
    [refundId |-> refundId, amount |-> amount, currencyCode |-> currencyCode,
     status |-> status]

RefundResponse(orderId, rf) ==
    [orderId |-> orderId, refund |-> rf, status |-> [statusCode |-> "SUCCESS"]]

RefundResponses ==
    {RefundResponse("o1", RefundOf("r1", a, "USD", "PENDING")) : a \in {1, TotalMinor}}
    \cup {RefundResponse("o1", RefundOf("r1", 1, "USD", st)) :
            st \in {"CANCELED", "FINALIZED", "FOO"}}
    \cup {RefundResponse("o1", RefundOf("r1", 1, c, "PENDING")) : c \in {"EUR", "HUF"}}
    \cup {RefundResponse("o2", RefundOf("r1", 1, "USD", "PENDING"))}
    \* two or more checks fail at once
    \cup {RefundResponse("o2", RefundOf("r1", 1, "USD", "CANCELED")),
          RefundResponse("o2", RefundOf("r1", 1, "HUF", "PENDING")),
          RefundResponse("o2", [refundId |-> "r1", amount |-> 1, currencyCode |-> "USD"]),
          RefundResponse("o1", RefundOf("r1", 1, "EUR", "FINALIZED"))}
    \cup {[refund |-> RefundOf("r1", 1, "USD", "PENDING"),
           status |-> [statusCode |-> "SUCCESS"]],
          RefundResponse("o1", [amount |-> 1, currencyCode |-> "USD", status |-> "PENDING"]),
          RefundResponse("o1", [refundId |-> "r1", amount |-> 1, currencyCode |-> "USD"]),
          RefundResponse("o1", [refundId |-> "r1", status |-> "CANCELED"]),
          [orderId |-> "o1", status |-> [statusCode |-> "SUCCESS"]],
          [orderId |-> "o1", refund |-> RefundOf("r1", 1, "USD", "PENDING")],
          [orderId |-> "o1", refund |-> RefundOf("r1", 1, "USD", "PENDING"),
           status |-> [codeLiteral |-> "literal"]],
          [status |-> [statusCode |-> "ERROR_VALUE_INVALID", codeLiteral |-> "literal"]]}

RefundAnswers == {Json(r) : r \in RefundResponses} \cup AuthFailureAnswers \cup {NotJson}

(***************************************************************************)
(* Order cancellation: reject_order.                                       *)
(***************************************************************************)
\* response["status"]["statusCode"] can be read
HasStatusCode(response) ==
    /\ Has(response, "status")
    /\ Has(response["status"], "statusCode")

\* response1["status"]["statusCode"] == response2["status"]["statusCode"] == "SUCCESS"
BothSucceeded(response1, response2) ==
    /\ response1["status"]["statusCode"] = response2["status"]["statusCode"]
    /\ response2["status"]["statusCode"] = "SUCCESS"

\* the part of reject_order that follows the two DELETE requests
reject_order(p, d, response1, response2) ==
    IF ~HasStatusCode(response1) \/ ~HasStatusCode(response2)
    THEN Outcome(p, d, Raise("KeyError", "status"))
    ELSE IF BothSucceeded(response1, response2)
    THEN LET w == change_status(p, d, "REJECTED")
         IN  Outcome(w.payment, w.db, Return(TRUE))
    ELSE Outcome(p, d, Return(FALSE))

\* what the gateway may answer to a DELETE of the order
RejectAnswers ==
    {Json([status |-> Status(c)]) : c \in {"SUCCESS", "FAIL"}}
    \cup AuthFailureAnswers \cup {NotJson}

(***************************************************************************)
(* The handler that is running, and the one that ran last.                 *)
(***************************************************************************)
NoCall == [op |-> "none"]

NoLast == [op |-> "none"]

Idle == call.op = "none" /\ last.op = "none" /\ ops < MaxOps

Init ==
    /\ payment \in {NewPayment, ConfirmedPayment}
    /\ db = payment
    /\ token = "t0"
    /\ get_refund_description \in {"callable", "None"}
    /\ get_refund_description = "None" => payment = ConfirmedPayment
    /\ call = NoCall
    /\ last = NoLast
    /\ ops = 0

\* the webhook view hands a notification to process_notification
ProcessNotification ==
    /\ Idle
    /\ \E request \in Requests :
         LET o == process_data(payment, db, request)
         IN  /\ payment' = o.payment
             /\ db' = o.db
             /\ last' = [op |-> "process_notification", request |-> request,
                         pre |-> payment, ret |-> o.ret]
    /\ ops' = ops + 1
    /\ UNCHANGED <<token, get_refund_description, call>>

\* a handler enters post_request
Enter(op, arg) ==
    call' = [op |-> op, arg |-> arg, pc |-> "send", i |-> 1,
             nreq |-> 0, nauth |-> 0, sent |-> "None", answer |-> NotJson]

\* the handler that called post_request ends with outcome o
Finish(o, answer) ==
    /\ payment' = o.payment
    /\ db' = o.db
    /\ last' = [op |-> call.op, arg |-> call.arg, pre |-> payment,
                ret |-> o.ret, answer |-> answer]
    /\ call' = NoCall
    /\ ops' = ops + 1

\* get_form or process_widget calls create_order
CreateOrderCall ==
    /\ Idle
    /\ \E auto_renew \in BOOLEAN : Enter("create_order", auto_renew)
    /\ UNCHANGED <<payment, db, token, get_refund_description, last, ops>>

\* the test left out
DescriptionMissingIgnored(description) == FALSE

\* self.get_refund_description is None
DescriptionMissing(description) == description = "None"

\* payment.refund(amount) calls refund
RefundCall ==
    /\ Idle
    /\ \E amount \in RefundAmounts :
         IF DescriptionMissing(get_refund_description)
         THEN /\ last' = [op |-> "refund", arg |-> amount, pre |-> payment,
                          ret |-> Raise("ValueError", "get_refund_description not set"),
                          answer |-> NotJson]
              /\ ops' = ops + 1
              /\ UNCHANGED call
         ELSE /\ Enter("refund", amount)
              /\ UNCHANGED <<last, ops>>
    /\ UNCHANGED <<payment, db, token, get_refund_description>>

\* headers built once, before the loop: every attempt repeats the first token
get_token_headers_stale(cached, sent) ==
    IF sent = "None" THEN cached ELSE sent

\* "Authorization": "Bearer %s" % self.token, whatever the attempt before
\* was sent with
get_token_headers(cached, sent) == cached

\* kwargs["headers"] = self.get_token_headers(); requests.post(url, ...)
PostRequestSends ==
    /\ call.op # "none"
    /\ call.pc = "send"
    /\ call.nreq < MaxRequests
    /\ call' = [call EXCEPT !.pc = "recv",
                            !.sent = get_token_headers(token, @),
                            !.nreq = @ + 1]
    /\ UNCHANGED <<payment, db, token, get_refund_description, last, ops>>

\* json.loads(response.text) and the test for an auth failure; returned is
\* what the caller makes of the response_dict that post_request returns
Receive(answer, returned) ==
    IF ~answer.json
    THEN /\ Finish(Outcome(payment, db, Raise("JSONDecodeError", "response.text")), answer)
         /\ UNCHANGED <<token, get_refund_description>>
    ELSE IF IsAuthFailure(answer.data)
    THEN /\ call' = [call EXCEPT !.pc = "auth", !.answer = answer]
         /\ UNCHANGED <<payment, db, token, get_refund_description, last, ops>>
    ELSE /\ Finish(returned, answer)
         /\ UNCHANGED <<token, get_refund_description>>

CreateOrderReceives ==
    /\ call.op = "create_order"
    /\ call.pc = "recv"
    /\ \E answer \in OrderAnswers :
         Receive(answer, create_order(payment, db, answer.data, call.arg))

RefundReceives ==
    /\ call.op = "refund"
    /\ call.pc = "recv"
    /\ \E answer \in RefundAnswers :
         Receive(answer, refund(payment, db, answer.data, call.arg))

\* reject_order sends the first DELETE with the cached token
RejectOrderCall ==
    /\ Idle
    /\ call' = [op |-> "reject_order", arg |-> "None", pc |-> "delete", i |-> 1,
                nreq |-> 1, nauth |-> 0, sent |-> token, answer |-> <<>>]
    /\ UNCHANGED <<payment, db, token, get_refund_description, last, ops>>

\* json.loads of the first response, then the second DELETE
RejectOrderFirst ==
    /\ call.op = "reject_order"
    /\ call.i = 1
    /\ \E answer \in RejectAnswers :
         IF ~answer.json
         THEN Finish(Outcome(payment, db, Raise("JSONDecodeError", "response.text")),
                     <<answer>>)
         ELSE /\ call' = [call EXCEPT !.i = 2, !.nreq = @ + 1, !.answer = <<answer>>]
              /\ UNCHANGED <<payment, db, last, ops>>
    /\ UNCHANGED <<token, get_refund_description>>

\* json.loads of the second response and the comparison of the two
RejectOrderSecond ==
    /\ call.op = "reject_order"
    /\ call.i = 2
    /\ \E answer \in RejectAnswers :
         IF ~answer.json
         THEN Finish(Outcome(payment, db, Raise("JSONDecodeError", "response.text")),
                     Append(call.answer, answer))
         ELSE Finish(reject_order(payment, db, call.answer[1].data, answer.data),
                     Append(call.answer, answer))
    /\ UNCHANGED <<token, get_refund_description>>

\* a caller uses post_request itself and gets response_dict back
PostRequestCall ==
    /\ Idle
    /\ Enter("post_request", "url")
    /\ UNCHANGED <<payment, db, token, get_refund_description, last, ops>>

PostRequestReceives ==
    /\ call.op = "post_request"
    /\ call.pc = "recv"
    /\ \E answer \in OrderAnswers :
         Receive(answer, Outcome(payment, db, Return(answer.data)))

\* the payment marked as failed when post_request gives up
FinishRefreshMarked(ret, auth) ==
    /\ last' = [op |-> call.op, arg |-> call.arg, pre |-> payment,
                ret |-> ret, answer |-> call.answer, auth |-> auth]
    /\ call' = NoCall
    /\ ops' = ops + 1
    /\ payment' = [payment EXCEPT !.status = "ERROR"]
    /\ db' = [db EXCEPT !.status = "ERROR"]

\* post_request ends in its token refresh, which the auth endpoint answered
\* with auth
FinishRefresh(ret, auth) ==
    /\ last' = [op |-> call.op, arg |-> call.arg, pre |-> payment,
                ret |-> ret, answer |-> call.answer, auth |-> auth]
    /\ call' = NoCall
    /\ ops' = ops + 1
    /\ UNCHANGED <<payment, db>>

\* the cached token dropped when the refresh fails
TokenAfterRefreshDropped(old, got) ==
    IF got.kind = "raise" THEN "None" ELSE got.value

\* the new token thrown away
TokenAfterRefreshKept(old, got) == old

\* self.token = self.get_access_token(...): no assignment when it raises
TokenAfterRefresh(old, got) ==
    IF got.kind = "raise" THEN old ELSE got.value

\* self.token = self.get_access_token(...), then the next iteration or the end
PostRequestRefreshes ==
    /\ call.op # "none"
    /\ call.pc = "auth"
    /\ \E answer \in AuthAnswers :
         LET got == get_access_token(answer)
         IN  /\ token' = TokenAfterRefresh(token, got)
             /\ IF got.kind = "raise"
                THEN FinishRefresh(Raise("PayuApiError",
                                         "Unable to regain authorization token {e}"),
                                   answer)
                ELSE IF NextAttempt(call.i) \in RetryRange
                THEN /\ call' = [call EXCEPT !.pc = "send",
                                             !.i = NextAttempt(@),
                                             !.nauth = @ + 1]
                     /\ UNCHANGED <<payment, db, last, ops>>
                ELSE FinishRefresh(Raise("PayuApiError",
                                         "Unable to regain authorization token"),
                                   answer)
    /\ UNCHANGED get_refund_description

\* the handler gives its result back to its caller
HandlerReturns ==
    /\ call.op = "none"
    /\ last.op # "none"
    /\ ops < MaxOps
    /\ last' = NoLast
    /\ UNCHANGED <<payment, db, token, get_refund_description, call, ops>>

\* payment.refresh_from_db()
RefreshFromDb ==
    /\ call.op = "none"
    /\ last.op = "none"
    /\ payment # db
    /\ payment' = db
    /\ UNCHANGED <<db, token, get_refund_description, call, last, ops>>

Next ==
    \/ ProcessNotification
    \/ CreateOrderCall
    \/ CreateOrderReceives
    \/ RefundCall
    \/ RefundReceives
    \/ RejectOrderCall
    \/ RejectOrderFirst
    \/ RejectOrderSecond
    \/ PostRequestSends
    \/ PostRequestRefreshes
    \/ HandlerReturns
    \/ RefreshFromDb

Spec == Init /\ [][Next]_vars

\* the webhook alone
NotifyNext ==
    \/ ProcessNotification
    \/ HandlerReturns

NotifySpec == Init /\ [][NotifyNext]_vars

\* order creation alone
OrderNext ==
    \/ CreateOrderCall
    \/ CreateOrderReceives
    \/ PostRequestSends
    \/ PostRequestRefreshes
    \/ HandlerReturns
    \/ RefreshFromDb

OrderSpec == Init /\ [][OrderNext]_vars

\* refund requests alone
RefundNext ==
    \/ RefundCall
    \/ RefundReceives
    \/ PostRequestSends
    \/ PostRequestRefreshes
    \/ HandlerReturns

RefundSpec == Init /\ [][RefundNext]_vars

\* the two handlers that go through post_request: orders and refunds
GatewayNext ==
    \/ CreateOrderCall
    \/ CreateOrderReceives
    \/ RefundCall
    \/ RefundReceives
    \/ PostRequestSends
    \/ PostRequestRefreshes
    \/ HandlerReturns
    \/ RefreshFromDb

GatewaySpec == Init /\ [][GatewayNext]_vars

\* order cancellation alone
RejectNext ==
    \/ RejectOrderCall
    \/ RejectOrderFirst
    \/ RejectOrderSecond
    \/ HandlerReturns

RejectSpec == Init /\ [][RejectNext]_vars

\* the money codec alone: a price in a currency, to minor units and back
Mill == DecimalDen \div 1000

Prices == {k * Mill : k \in (0 - MaxMills)..MaxMills}

CodecInit ==
    /\ payment = NewPayment
    /\ db = payment
    /\ token = "t0"
    /\ get_refund_description = "callable"
    /\ call \in {[op |-> "codec", price |-> price, currency |-> currency] :
                    price \in Prices, currency \in SupportedCurrencies}
    /\ last = NoLast
    /\ ops = 0

QuantizePrice ==
    /\ call.op = "codec"
    /\ last.op = "none"
    /\ last' = [op |-> "quantize_price", arg |-> call, pre |-> payment,
                ret |-> Return(quantize_price(call.price, call.currency))]
    /\ UNCHANGED <<payment, db, token, get_refund_description, call, ops>>

DequantizePrice ==
    /\ call.op = "codec"
    /\ last.op = "quantize_price"
    /\ last' = [op |-> "dequantize_price", arg |-> call, pre |-> payment,
                ret |-> Return(dequantize_price(last.ret.value, call.currency))]
    /\ UNCHANGED <<payment, db, token, get_refund_description, call, ops>>

CodecNext ==
    \/ QuantizePrice
    \/ DequantizePrice

CodecSpec == CodecInit /\ [][CodecNext]_vars

\* several callers in post_request on one provider, with no lock; every
\* token the auth endpoint issues stays valid, the token cached at
\* construction has expired
Callers == 1..MaxCallers

FreshTokens == {"t1", "t2"}

\* the gateway takes a request that carries a valid token
GatewayAnswers(sent) ==
    IF sent \in FreshTokens
    THEN {Json([orderId |-> "o1", status |-> Status("SUCCESS")])}
    ELSE AuthFailureAnswers

NotCalling ==
    [pc |-> "idle", i |-> 1, nreq |-> 0, nauth |-> 0, sent |-> "None",
     ret |-> [kind |-> "none"]]

SharedInit ==
    /\ payment = NewPayment
    /\ db = payment
    /\ token = "t0"
    /\ get_refund_description = "callable"
    /\ call = [op |-> "post_request", of |-> [c \in Callers |-> NotCalling]]
    /\ last = NoLast
    /\ ops = 0

\* caller c moves on; nothing else changes but the cached token
CallerStep(c, to) ==
    /\ call' = [call EXCEPT !.of[c] = to]
    /\ UNCHANGED <<payment, db, get_refund_description, last, ops>>

SharedCall(c) ==
    /\ call.of[c].pc = "idle"
    /\ CallerStep(c, [call.of[c] EXCEPT !.pc = "send"])
    /\ UNCHANGED token

SharedSends(c) ==
    /\ call.of[c].pc = "send"
    /\ CallerStep(c, [call.of[c] EXCEPT !.pc = "recv",
                                        !.sent = get_token_headers(token, @),
                                        !.nreq = @ + 1])
    /\ UNCHANGED token

SharedReceives(c) ==
    /\ call.of[c].pc = "recv"
    /\ \E answer \in GatewayAnswers(call.of[c].sent) :
         IF IsAuthFailure(answer.data)
         THEN CallerStep(c, [call.of[c] EXCEPT !.pc = "auth"])
         ELSE CallerStep(c, [call.of[c] EXCEPT !.pc = "done",
                                              !.ret = Return(answer.data)])
    /\ UNCHANGED token

SharedRefreshes(c) ==
    /\ call.of[c].pc = "auth"
    /\ \E t \in FreshTokens :
         LET got == get_access_token(Json([access_token |-> t, token_type |-> "bearer"]))
         IN  /\ token' = TokenAfterRefresh(token, got)
             /\ IF NextAttempt(call.of[c].i) \in RetryRange
                THEN CallerStep(c, [call.of[c] EXCEPT !.pc = "send",
                                                     !.i = NextAttempt(@),
                                                     !.nauth = @ + 1])
                ELSE CallerStep(c, [call.of[c] EXCEPT
                         !.pc = "done",
                         !.ret = Raise("PayuApiError",
                                       "Unable to regain authorization token")])

SharedStep(c) ==
    \/ SharedCall(c)
    \/ SharedSends(c)
    \/ SharedReceives(c)
    \/ SharedRefreshes(c)

SharedNext ==
    \/ \E c \in Callers : SharedCall(c)
    \/ \E c \in Callers : SharedSends(c)
    \/ \E c \in Callers : SharedReceives(c)
    \/ \E c \in Callers : SharedRefreshes(c)

SharedFairSpec ==
    SharedInit /\ [][SharedNext]_vars /\ \A c \in Callers : WF_vars(SharedStep(c))

\* two webhook handlers at once: each loads its own Payment object from the
\* row, then runs process_data on it, which saves to the row
Handlers == 1..2

RefundRequests == {r \in GatewayRequests : r.body \in RefundBodies}

NotHandling == [pc |-> "idle"]

WebhookInit ==
    /\ payment = ConfirmedPayment
    /\ db = payment
    /\ token = "t0"
    /\ get_refund_description = "callable"
    /\ call = [op |-> "process_data", of |-> [h \in Handlers |-> NotHandling]]
    /\ last = NoLast
    /\ ops = 0

\* the view fetches the payment of the notification it was sent
WebhookLoads(h) ==
    /\ call.of[h].pc = "idle"
    /\ \E request \in RefundRequests :
         call' = [call EXCEPT !.of[h] = [pc |-> "loaded", request |-> request,
                                         loaded |-> db]]
    /\ UNCHANGED <<payment, db, token, get_refund_description, last, ops>>

\* process_data on the object that was loaded
WebhookHandles(h) ==
    /\ call.of[h].pc = "loaded"
    /\ LET o == process_data(call.of[h].loaded, db, call.of[h].request)
       IN  /\ db' = o.db
           /\ call' = [call EXCEPT !.of[h] = [pc |-> "done",
                                              request |-> call.of[h].request,
                                              loaded |-> call.of[h].loaded,
                                              payment |-> o.payment,
                                              ret |-> o.ret]]
    /\ UNCHANGED <<payment, token, get_refund_description, last, ops>>

WebhookNext ==
    \/ \E h \in Handlers : WebhookLoads(h)
    \/ \E h \in Handlers : WebhookHandles(h)

WebhookSpec == WebhookInit /\ [][WebhookNext]_vars

\* post_request alone; the interpreter runs a call that has started to its end
PostRequestStep ==
    \/ PostRequestSends
    \/ PostRequestReceives
    \/ PostRequestRefreshes

PostNext ==
    \/ PostRequestCall
    \/ PostRequestStep
    \/ HandlerReturns

PostFairSpec == Init /\ [][PostNext]_vars /\ WF_vars(PostRequestStep)

(***************************************************************************)
(* Properties.  last is the handler that has just ended: its input, the    *)
(* payment it started from (last.pre) and its result (last.ret).           *)
(***************************************************************************)
Notified == last.op = "process_notification"

\* the header splits into key=value parts that carry signature and algorithm
HeaderParses(request) ==
    /\ request.has_header
    /\ SplitOk(request.header)
    /\ Has(HeaderData(request.header), "signature")
    /\ Has(HeaderData(request.header), "algorithm")

\* the signature is the MD5 digest of the body followed by the shared key
SignedByGateway(request) ==
    /\ HeaderParses(request)
    /\ HeaderData(request.header)["algorithm"] = "MD5"
    /\ HeaderData(request.header)["signature"] = [md5 |-> <<request.body, second_key>>]

Ok == [kind |-> "response", content |-> "ok", status |-> 200]

NotOk == [kind |-> "response", content |-> "not ok", status |-> 500]

\* an amount of minor units as a Decimal of the currency
MinorAsDecimal(a) == a * (DecimalDen \div 100)

LedgerKept ==
    /\ payment.captured_amount = last.pre.captured_amount
    /\ payment.status = last.pre.status

\* C1: a notification whose header parses but whose signature does not
\* verify (wrong digest or an algorithm other than MD5) is answered with
\* the 500 response 'not ok' and leaves status, captured_amount, message
\* and the journal as they were, whatever the body and the payment are.
C1_UnverifiedIsNotOk ==
    (Notified /\ HeaderParses(last.request) /\ ~SignedByGateway(last.request))
        => /\ last.ret = NotOk
           /\ LedgerKept
           /\ payment.message = last.pre.message
           /\ payment.extra_data = last.pre.extra_data

\* C2: a post_request call sends at most retry_count - 1 requests, a call
\* that ended on an authorization failure ended with PayuApiError, and
\* every call that has started ends.
C2_PostRequestTerminates ==
    /\ [](call.op # "none" => call.nreq <= retry_count - 1)
    /\ []((last.op = "post_request" /\ last.answer.json
              /\ IsAuthFailure(last.answer.data))
            => (last.ret.kind = "raise" /\ last.ret.exc = "PayuApiError"))
    /\ (call.op # "none") ~> (call.op = "none")

\* every answer was an authorization failure and every refresh succeeded
C2_Exhausted ==
    /\ last.op = "post_request"
    /\ last.ret = [kind |-> "raise", exc |-> "PayuApiError",
                   msg |-> "Unable to regain authorization token"]
    /\ token = "t1"

\* the response passes every validation of refund
RefundAccepted(response, amount, p) ==
    /\ Has(response, "status") /\ Has(response["status"], "statusCode")
    /\ response["status"]["statusCode"] = "SUCCESS"
    /\ Has(response, "orderId") /\ response["orderId"] = p.transaction_id
    /\ Has(response, "refund")
    /\ \A k \in {"refundId", "status", "currencyCode", "amount"} :
           Has(response["refund"], k)
    /\ response["refund"]["status"] = "PENDING"
    /\ response["refund"]["currencyCode"] = p.currency
    /\ amount.given => MinorAsDecimal(response["refund"]["amount"]) = amount.value

\* C3: refund never changes captured_amount or status, in memory or in the
\* database, whatever the gateway answers; when the response passes every
\* validation it returns zero.
C3_RefundKeepsLedger ==
    /\ last.op = "refund" =>
           \A q \in {payment, db} :
               /\ q.captured_amount = last.pre.captured_amount
               /\ q.status = last.pre.status
    /\ (last.op = "refund" /\ get_refund_description = "callable"
          /\ last.answer.json /\ ~IsAuthFailure(last.answer.data)
          /\ RefundAccepted(last.answer.data, last.arg, last.pre))
         => last.ret = [kind |-> "return", value |-> 0]

\* an accepted refund of the whole captured amount
C3_AcceptedRefund ==
    /\ last.op = "refund"
    /\ last.ret = [kind |-> "return", value |-> 0]
    /\ last.arg = Amount(MinorAsDecimal(TotalMinor))
    /\ payment.status = "CONFIRMED"
    /\ payment.captured_amount = MinorAsDecimal(TotalMinor)

\* a verified notification that carries a refund
VerifiedRefund ==
    /\ Notified
    /\ SignedByGateway(last.request)
    /\ last.request.body.json
    /\ Has(last.request.body.data, "refund")

Refunded == last.request.body.data["refund"]

VerifiedOrder ==
    /\ Notified
    /\ SignedByGateway(last.request)
    /\ last.request.body.json
    /\ ~Has(last.request.body.data, "refund")
    /\ Has(last.request.body.data, "order")

Ordered == last.request.body.data["order"]

\* the order is COMPLETED, which maps to CONFIRMED, and carries totalAmount
CompletedWithTotal ==
    Ordered["status"] = "COMPLETED" /\ Has(Ordered, "totalAmount")

TotalIsSupported ==
    Has(Ordered, "currencyCode") /\ Ordered["currencyCode"] \in SupportedCurrencies

\* C6 as stated: a verified order notification overwrites captured_amount
\* with the dequantized totalAmount exactly when the mapped status is
\* CONFIRMED and the payload carries totalAmount; in every other order
\* notification captured_amount is unchanged.
C6_CapturesWhenConfirmed ==
    VerifiedOrder =>
        IF CompletedWithTotal
        THEN payment.captured_amount = MinorAsDecimal(Ordered["totalAmount"])
        ELSE payment.captured_amount = last.pre.captured_amount

\* C6: a verified order notification overwrites captured_amount, in memory
\* and in the database, with the dequantized totalAmount exactly when the
\* mapped status is CONFIRMED, the payload carries totalAmount and its
\* currency is a supported one; in every other order notification
\* captured_amount is unchanged.
C6_CapturesSupportedTotal ==
    VerifiedOrder =>
        IF CompletedWithTotal /\ TotalIsSupported
        THEN /\ payment.captured_amount = MinorAsDecimal(Ordered["totalAmount"])
             /\ db.captured_amount = payment.captured_amount
             /\ last.ret = Ok
        ELSE /\ payment.captured_amount = last.pre.captured_amount
             /\ db.captured_amount = last.pre.captured_amount

\* a COMPLETED order overwrote a captured amount of zero
C6_Overwritten ==
    /\ VerifiedOrder
    /\ CompletedWithTotal
    /\ last.pre.captured_amount = 0
    /\ payment.captured_amount = MinorAsDecimal(MaxMinor)
    /\ payment.status = "CONFIRMED"

MappedStatuses ==
    {"COMPLETED", "PENDING", "WAITING_FOR_CONFIRMATION", "CANCELED", "NEW"}

\* COMPLETED->CONFIRMED, PENDING->INPUT, WAITING_FOR_CONFIRMATION->INPUT,
\* CANCELED->REJECTED, NEW->WAITING
ImageOf(status) ==
    CASE status = "COMPLETED" -> "CONFIRMED"
      [] status \in {"PENDING", "WAITING_FOR_CONFIRMATION"} -> "INPUT"
      [] status = "CANCELED" -> "REJECTED"
      [] status = "NEW" -> "WAITING"

\* C7 as stated: a verified order notification sets the payment status to
\* the image of order.status under the table, whatever the current status
\* is; an order.status outside the table raises an error and leaves status
\* and captured_amount unchanged.
C7_StatusFollowsTable ==
    VerifiedOrder =>
        IF Ordered["status"] \in MappedStatuses
        THEN payment.status = ImageOf(Ordered["status"])
        ELSE last.ret.kind = "raise" /\ LedgerKept

\* C7: a verified order notification sets the payment status to the image
\* of order.status under the table, whatever the current status is, unless
\* it is COMPLETED with a totalAmount in an unsupported currency; that
\* case and an order.status outside the table raise an error and leave
\* status and captured_amount unchanged.
C7_StatusFollowsTableIfSupported ==
    VerifiedOrder =>
        IF /\ Ordered["status"] \in MappedStatuses
           /\ CompletedWithTotal => TotalIsSupported
        THEN /\ payment.status = ImageOf(Ordered["status"])
             /\ db.status = payment.status
             /\ last.ret = Ok
        ELSE /\ last.ret.kind = "raise"
             /\ LedgerKept
             /\ db.status = last.pre.status

\* a confirmed payment moved to INPUT by WAITING_FOR_CONFIRMATION
C7_ConfirmedMovedBack ==
    /\ VerifiedOrder
    /\ Ordered["status"] = "WAITING_FOR_CONFIRMATION"
    /\ last.pre.status = "CONFIRMED"
    /\ payment.status = "INPUT"

\* create_order got a response from post_request
Created ==
    /\ last.op = "create_order"
    /\ last.answer.json
    /\ ~IsAuthFailure(last.answer.data)

Response == last.answer.data

StatusCodeIs(codes) ==
    /\ Has(Response, "status")
    /\ Has(Response["status"], "statusCode")
    /\ Response["status"]["statusCode"] \in codes

\* no payMethods, or a payMethod with its value and the card's fields
PayMethodsUsable ==
    Has(Response, "payMethods") =>
        /\ Has(Response["payMethods"], "payMethod")
        /\ Has(Response["payMethods"]["payMethod"], "value")
        /\ Has(Response["payMethods"]["payMethod"], "card")
        /\ \A k \in {"expirationYear", "expirationMonth", "number"} :
               Has(Response["payMethods"]["payMethod"]["card"], k)

RedirectStored ==
    /\ last.ret = [kind |-> "return", value |-> Response["redirectUri"]]
    /\ Has(Response, "orderId")
    /\ payment.transaction_id = Response["orderId"]
    /\ Has(payment.extra_data, "card_response")
    /\ payment.extra_data["card_response"] = Response
    /\ payment.status = last.pre.status

\* C8 as stated: a response with statusCode SUCCESS and a redirectUri makes
\* create_order return that redirectUri, set transaction_id to the
\* response's orderId, store the raw response in the journal and leave
\* the payment status alone.
C8_SuccessRedirects ==
    (Created /\ StatusCodeIs({"SUCCESS"}) /\ Has(Response, "redirectUri"))
        => RedirectStored

\* C8: a response with statusCode SUCCESS, a redirectUri, an orderId and
\* payMethods that are absent or complete makes create_order return that
\* redirectUri, set transaction_id to the response's orderId, store the
\* raw response in the journal and leave the payment status alone.
C8_CompleteSuccessRedirects ==
    (Created /\ StatusCodeIs({"SUCCESS"}) /\ Has(Response, "redirectUri")
        /\ Has(Response, "orderId") /\ PayMethodsUsable)
        => RedirectStored

\* a new payment got its transaction_id and the redirect
C8_Redirected ==
    /\ Created
    /\ last.pre.transaction_id = "None"
    /\ payment.transaction_id = "o1"
    /\ last.ret = [kind |-> "return", value |-> "redirect_uri"]
    /\ payment.status = "WAITING"

\* the outcomes create_order handles as success or as a warning
Handled ==
    /\ Has(Response, "orderId")
    /\ PayMethodsUsable
    /\ \/ StatusCodeIs({"SUCCESS"})
       \/ /\ StatusCodeIs({"WARNING_CONTINUE_CVV", "WARNING_CONTINUE_3DS"})
          /\ Has(Response, "redirectUri")

\* C9: a response that is not a handled success or warning outcome, not
\* BUSINESS_ERROR and not ERROR_ORDER_NOT_UNIQUE on a CONFIRMED payment
\* sets the status to ERROR and returns the failure URL, with no exception
\* reaching the caller.
C9_UnhandledSetsError ==
    (Created /\ ~Handled /\ ~StatusCodeIs({"BUSINESS_ERROR"})
        /\ ~(StatusCodeIs({"ERROR_ORDER_NOT_UNIQUE"})
               /\ last.pre.status = "CONFIRMED"))
        => /\ payment.status = "ERROR"
           /\ last.ret = [kind |-> "return", value |-> failureUrl]

\* C10: a response with statusCode BUSINESS_ERROR sets the fraud status to
\* REJECT and returns the failure URL, with no exception reaching the
\* caller.
C10_BusinessErrorRejects ==
    (Created /\ StatusCodeIs({"BUSINESS_ERROR"}))
        => /\ payment.fraud_status = "REJECT"
           /\ last.ret = [kind |-> "return", value |-> failureUrl]

\* C11: when the order response has statusCode ERROR_ORDER_NOT_UNIQUE and
\* the payment is already CONFIRMED, create_order returns the empty
\* redirect and the payment status is still CONFIRMED, in memory and in
\* the database.
C11_DuplicateOrderIsNoOp ==
    (Created /\ StatusCodeIs({"ERROR_ORDER_NOT_UNIQUE"})
        /\ last.pre.status = "CONFIRMED")
        => /\ last.ret = [kind |-> "return", value |-> ""]
           /\ payment.status = "CONFIRMED"
           /\ db.status = "CONFIRMED"

\* a confirmed payment whose order was sent again
C11_DuplicateOrder ==
    /\ Created
    /\ StatusCodeIs({"ERROR_ORDER_NOT_UNIQUE"})
    /\ last.pre.status = "CONFIRMED"
    /\ last.ret = [kind |-> "return", value |-> ""]
    /\ payment.status = "CONFIRMED"

\* the step on which post_request gives up after a successful refresh
Exhausts ==
    /\ call.op # "none"
    /\ last'.op = call.op
    /\ last'.ret = [kind |-> "raise", exc |-> "PayuApiError",
                    msg |-> "Unable to regain authorization token"]

\* C12: when every gateway response is an authorization failure and every
\* token refresh succeeds, post_request has sent exactly 5 requests, with
\* 4 refreshes between them, when it fails with the exhaustion error; no
\* call ever sends more than 5 requests.
C12_FiveRequestsFourRefreshes ==
    /\ [](call.op # "none" => call.nreq <= 5)
    /\ [][Exhausts => (call.nreq = 5 /\ call.nauth = 4)]_vars

\* C13: in every reachable state, after any sequence of order creations,
\* refund requests and verified order and refund notifications,
\* 0 <= captured_amount <= total holds for the payment.
C13_CapturedWithinTotal ==
    /\ 0 <= payment.captured_amount
    /\ payment.captured_amount <= payment.total

\* the journal of the payment the handler started from ends with the very
\* notification the handler has now applied
Redelivered ==
    /\ Notified
    /\ SignedByGateway(last.request)
    /\ last.request.body.json
    /\ Has(last.pre.extra_data, "statuses")
    /\ last.pre.extra_data["statuses"][Len(last.pre.extra_data["statuses"])]
           = last.request.body.data

\* C14: applying the same verified order notification twice in a row is a
\* no-op in effect: status and captured_amount after the second
\* application equal those after the first.
C14_OrderRedeliveryIsNoOp ==
    (Redelivered /\ VerifiedOrder) => LedgerKept

\* a COMPLETED order with its totalAmount applied a second time
C14_CompletedTwice ==
    /\ Redelivered
    /\ VerifiedOrder
    /\ CompletedWithTotal
    /\ TotalIsSupported
    /\ last.ret = Ok
    /\ payment.status = "CONFIRMED"
    /\ payment.captured_amount = MinorAsDecimal(MaxMinor)

\* C15: refund notifications are not deduplicated: a FINALIZED refund
\* notification that is delivered again right after it was applied is
\* applied again; its amount is subtracted from captured_amount a second
\* time, or the payment moves to REFUNDED when the amount is no longer
\* below what is left of captured_amount.
C15_RefundRedeliveryApplies ==
    (Redelivered /\ VerifiedRefund /\ Refunded["status"] = "FINALIZED"
        /\ Refunded["currencyCode"] \in SupportedCurrencies)
      => IF MinorAsDecimal(Refunded["amount"]) < last.pre.captured_amount
         THEN /\ payment.captured_amount =
                     last.pre.captured_amount - MinorAsDecimal(Refunded["amount"])
              /\ payment.status = last.pre.status
              /\ last.ret = Ok
         ELSE /\ payment.status = "REFUNDED"
              /\ payment.captured_amount = last.pre.captured_amount
              /\ last.ret = Ok

\* one minor unit taken twice from the captured total
C15_SubtractedTwice ==
    /\ Redelivered
    /\ VerifiedRefund
    /\ Refunded["amount"] = 1
    /\ last.pre.captured_amount = MinorAsDecimal(TotalMinor - 1)
    /\ payment.captured_amount = MinorAsDecimal(TotalMinor - 2)
    /\ payment.status = "CONFIRMED"

\* C16: a verified refund notification whose refund status is anything
\* other than FINALIZED makes the call fail with an error and leaves the
\* payment's status, captured_amount and message unchanged, in memory and
\* in the database.
C16_UnfinishedRefundFails ==
    (VerifiedRefund /\ Refunded["status"] # "FINALIZED")
      => /\ last.ret.kind = "raise"
         /\ LedgerKept
         /\ payment.message = last.pre.message
         /\ db.status = last.pre.status
         /\ db.captured_amount = last.pre.captured_amount
         /\ db.message = last.pre.message

\* a PENDING refund of a payment that has captured money
C16_PendingRefund ==
    /\ VerifiedRefund
    /\ Refunded["status"] = "PENDING"
    /\ last.pre.captured_amount > 0
    /\ last.ret = [kind |-> "raise", exc |-> "Exception",
                   msg |-> "Refund was not finelized"]

\* C17: a notification with a JSON body whose signature header is missing,
\* does not split into key=value pairs, or lacks the signature key or the
\* algorithm key is rejected with PayuApiError 'Malformed POST', and the
\* payment's status, captured_amount and journal are unchanged.
C17_MalformedHeaderIsMalformedPost ==
    (Notified /\ last.request.body.json /\ ~HeaderParses(last.request))
      => /\ last.ret = [kind |-> "raise", exc |-> "PayuApiError",
                        msg |-> "Malformed POST"]
         /\ LedgerKept
         /\ payment.extra_data = last.pre.extra_data

\* C18: a bad or unverifiable notification with a JSON body (missing or
\* malformed signature header, unsupported algorithm, signature mismatch)
\* never makes process_data raise: the caller receives an HTTP failure
\* response.
C18_BadNotificationGetsResponse ==
    (Notified /\ last.request.body.json /\ ~SignedByGateway(last.request))
      => /\ last.ret.kind = "response"
         /\ last.ret.status >= 400

\* refund got a response with statusCode SUCCESS, a refund id and the
\* payment's own orderId
RefundAnswered ==
    /\ last.op = "refund"
    /\ get_refund_description = "callable"
    /\ last.answer.json
    /\ ~IsAuthFailure(last.answer.data)
    /\ Has(last.answer.data, "status")
    /\ Has(last.answer.data["status"], "statusCode")
    /\ last.answer.data["status"]["statusCode"] = "SUCCESS"
    /\ Has(last.answer.data, "refund")
    /\ Has(last.answer.data["refund"], "refundId")
    /\ Has(last.answer.data, "orderId")
    /\ last.answer.data["orderId"] = last.pre.transaction_id

RefundStatus ==
    IF Has(last.answer.data["refund"], "status")
    THEN last.answer.data["refund"]["status"]
    ELSE "None"

RaisedError(exc) == last.ret.kind = "raise" /\ last.ret.exc = exc

StatusDecides ==
    /\ last.ret.kind = "return" => RefundStatus = "PENDING"
    /\ RefundStatus = "CANCELED" => RaisedError("ValueError")
    /\ RefundStatus = "FINALIZED" => RaisedError("NotImplementedError")
    /\ RefundStatus \notin {"PENDING", "CANCELED", "FINALIZED"}
           => RaisedError("PayuApiError")
    /\ last.ret.kind = "raise" =>
           /\ payment.captured_amount = last.pre.captured_amount
           /\ db.captured_amount = last.pre.captured_amount

\* C19 as stated: in refund, for a response with statusCode SUCCESS, a
\* refund id and the payment's own orderId, the refund status decides the
\* outcome: only PENDING is accepted, CANCELED raises the cancellation
\* error, FINALIZED the unsupported-response error, any other value a
\* protocol error; in each error case captured_amount is unmodified.
C19_RefundStatusDecides ==
    RefundAnswered => StatusDecides

\* C19: in refund, for a response with statusCode SUCCESS, a refund id,
\* the payment's own orderId and a refund object that carries status,
\* amount and a supported currencyCode, the refund status decides the
\* outcome: only PENDING is accepted, CANCELED raises the cancellation
\* error, FINALIZED the unsupported-response error, any other value a
\* protocol error; in each error case captured_amount is unmodified.
C19_CompleteRefundStatusDecides ==
    (/\ RefundAnswered
     /\ Has(last.answer.data["refund"], "status")
     /\ Has(last.answer.data["refund"], "amount")
     /\ Has(last.answer.data["refund"], "currencyCode")
     /\ last.answer.data["refund"]["currencyCode"] \in SupportedCurrencies)
      => StatusDecides

\* a canceled refund of a payment that has captured its total
C19_Canceled ==
    /\ RefundAnswered
    /\ RefundStatus = "CANCELED"
    /\ last.ret = [kind |-> "raise", exc |-> "ValueError", msg |-> "canceled"]
    /\ payment.captured_amount = MinorAsDecimal(TotalMinor)

\* C20: refund on a provider constructed without a description generator
\* fails with the configuration error before any gateway request is sent
\* and before the payment (status, captured_amount, journal) is modified.
C20_UnconfiguredRefundFails ==
    get_refund_description = "None" =>
        /\ call.op # "refund"
        /\ last.op = "refund" =>
               /\ last.ret = [kind |-> "raise", exc |-> "ValueError",
                              msg |-> "get_refund_description not set"]
               /\ payment = last.pre
               /\ db = last.pre
               /\ token = "t0"

\* the refund of a confirmed payment was refused
C20_Refused ==
    /\ get_refund_description = "None"
    /\ last.op = "refund"
    /\ last.ret.kind = "raise"
    /\ payment.status = "CONFIRMED"
    /\ payment.captured_amount = MinorAsDecimal(TotalMinor)

\* the journal's refund_responses list of payment p
RefundResponsesOf(p) ==
    IF Has(p.extra_data, "refund_responses")
    THEN p.extra_data["refund_responses"]
    ELSE <<>>

\* post_request gave refund a response
RefundGotResponse ==
    /\ last.op = "refund"
    /\ get_refund_description = "callable"
    /\ last.answer.json
    /\ ~IsAuthFailure(last.answer.data)

\* C21: every refund call that obtains a gateway response appends that
\* raw response exactly once to the end of the journal's refund_responses
\* list, in memory and in the database, whether validation then fails or
\* not; earlier entries are kept in order, so n calls add n entries, also
\* when the responses are identical.  A call that obtains no response
\* leaves the list as it was.
C21_RefundResponseJournaled ==
    last.op = "refund" =>
        IF RefundGotResponse
        THEN /\ RefundResponsesOf(payment) =
                    Append(RefundResponsesOf(last.pre), last.answer.data)
             /\ RefundResponsesOf(db) = RefundResponsesOf(payment)
        ELSE RefundResponsesOf(payment) = RefundResponsesOf(last.pre)

\* the same failing response journaled a second time
C21_SameResponseTwice ==
    /\ RefundGotResponse
    /\ last.ret.kind = "raise"
    /\ Len(RefundResponsesOf(payment)) = 2
    /\ RefundResponsesOf(payment)[1] = RefundResponsesOf(payment)[2]

\* reject_order has ended
Rejecting == last.op = "reject_order"

\* the statusCode of the n-th DELETE response is SUCCESS
DeleteSucceeded(n) ==
    /\ Len(last.answer) >= n
    /\ last.answer[n].json
    /\ Has(last.answer[n].data, "status")
    /\ Has(last.answer[n].data["status"], "statusCode")
    /\ last.answer[n].data["status"]["statusCode"] = "SUCCESS"

\* C22: reject_order issues the DELETE for the order twice in sequence;
\* it sets the payment status to REJECTED and returns true exactly when
\* both responses report status.statusCode SUCCESS; otherwise it returns
\* false and leaves the payment status unchanged.
C22_RejectsWhenBothSucceed ==
    Rejecting =>
        /\ Len(last.answer) = 2
        /\ IF DeleteSucceeded(1) /\ DeleteSucceeded(2)
           THEN /\ last.ret = [kind |-> "return", value |-> TRUE]
                /\ payment.status = "REJECTED"
           ELSE /\ last.ret = [kind |-> "return", value |-> FALSE]
                /\ payment.status = last.pre.status

\* status and captured_amount are what they were, in memory and in the row
StatusAndCapturedKept ==
    /\ payment.status = last.pre.status
    /\ payment.captured_amount = last.pre.captured_amount
    /\ db.status = last.pre.status
    /\ db.captured_amount = last.pre.captured_amount

\* "success" for a renewal, the continue URL for a buyer at the browser
CompletionMarker ==
    IF last.arg
    THEN last.ret = [kind |-> "return", value |-> "success"]
    ELSE last.ret = [kind |-> "return", value |-> "continue_url"]

\* C23 as stated: a response with statusCode SUCCESS, an orderId and no
\* redirectUri makes create_order return 'success' if auto-renew was
\* requested and the continue URL otherwise, with status and
\* captured_amount unchanged.
C23_SuccessCompletes ==
    (Created /\ StatusCodeIs({"SUCCESS"}) /\ Has(Response, "orderId")
        /\ ~Has(Response, "redirectUri"))
        => CompletionMarker /\ StatusAndCapturedKept

\* C23: a response with statusCode SUCCESS, an orderId, no redirectUri and
\* payMethods that are absent or complete makes create_order return
\* 'success' if auto-renew was requested and the continue URL otherwise,
\* with status and captured_amount unchanged.
C23_CompleteSuccessCompletes ==
    (Created /\ StatusCodeIs({"SUCCESS"}) /\ Has(Response, "orderId")
        /\ ~Has(Response, "redirectUri") /\ PayMethodsUsable)
        => CompletionMarker /\ StatusAndCapturedKept

\* a renewal of a card payment completed without a redirect
C23_Renewed ==
    /\ Created
    /\ StatusCodeIs({"SUCCESS"})
    /\ Has(Response, "orderId")
    /\ ~Has(Response, "redirectUri")
    /\ Has(Response, "payMethods")
    /\ last.arg
    /\ last.ret = [kind |-> "return", value |-> "success"]
    /\ payment.token = "card_token"

\* the journal holds the redirectUri under the key of the warning, and the
\* call returns the payment page for CVV and the redirectUri for 3DS
ContinuationStored ==
    /\ StatusCodeIs({"WARNING_CONTINUE_CVV"}) =>
           /\ Has(payment.extra_data, "cvv_url")
           /\ payment.extra_data["cvv_url"] = Response["redirectUri"]
           /\ Has(db.extra_data, "cvv_url")
           /\ db.extra_data["cvv_url"] = Response["redirectUri"]
           /\ last.ret = [kind |-> "return", value |-> "payment_url"]
    /\ StatusCodeIs({"WARNING_CONTINUE_3DS"}) =>
           /\ Has(payment.extra_data, "3ds_url")
           /\ payment.extra_data["3ds_url"] = Response["redirectUri"]
           /\ Has(db.extra_data, "3ds_url")
           /\ db.extra_data["3ds_url"] = Response["redirectUri"]
           /\ last.ret = [kind |-> "return", value |-> Response["redirectUri"]]
    /\ payment.status = last.pre.status
    /\ db.status = last.pre.status

\* C24 as stated: a response with statusCode WARNING_CONTINUE_CVV or
\* WARNING_CONTINUE_3DS and a redirectUri makes create_order store the
\* redirectUri under cvv_url or 3ds_url and leave the status unchanged;
\* 3DS returns the redirectUri and CVV the payment's own page.
C24_WarningContinues ==
    (Created /\ StatusCodeIs({"WARNING_CONTINUE_CVV", "WARNING_CONTINUE_3DS"})
        /\ Has(Response, "redirectUri"))
        => ContinuationStored

\* C24: a response with statusCode WARNING_CONTINUE_CVV or
\* WARNING_CONTINUE_3DS, a redirectUri, an orderId and payMethods that are
\* absent or complete makes create_order store the redirectUri under
\* cvv_url or 3ds_url and leave the status unchanged; 3DS returns the
\* redirectUri and CVV the payment's own page.
C24_CompleteWarningContinues ==
    (Created /\ StatusCodeIs({"WARNING_CONTINUE_CVV", "WARNING_CONTINUE_3DS"})
        /\ Has(Response, "redirectUri") /\ Has(Response, "orderId")
        /\ PayMethodsUsable)
        => ContinuationStored

\* the buyer is sent to the payment page to enter the CVV
C24_CvvAsked ==
    /\ Created
    /\ StatusCodeIs({"WARNING_CONTINUE_CVV"})
    /\ Has(payment.extra_data, "cvv_url")
    /\ last.ret = [kind |-> "return", value |-> "payment_url"]

\* C25: transaction_id is set once, at order creation: when the payment
\* has an order id, no later operation (a further create_order call with
\* any gateway response, refund, reject_order or a notification) ends
\* with another transaction_id.
C25_TransactionIdSetOnce ==
    (last.op # "none" /\ last.pre.transaction_id # "None")
        => payment.transaction_id = last.pre.transaction_id

\* the price has at most two fractional digits
TwoFractionalDigits(price) == price % (DecimalDen \div 100) = 0

\* C26: for every supported currency and every amount d with at most two
\* fractional digits, dequantize_price(quantize_price(d, c), c) = d.
C26_RoundTrip ==
    (last.op = "dequantize_price" /\ TwoFractionalDigits(last.arg.price))
        => /\ last.arg.currency \in {"PLN", "EUR", "USD", "CZK", "GBP"}
           /\ last.ret = [kind |-> "return", value |-> last.arg.price]

\* one cent went to minor units and came back
C26_CentCameBack ==
    /\ last.op = "dequantize_price"
    /\ last.arg.price = DecimalDen \div 100
    /\ last.ret.value = last.arg.price

\* the integer nearest to price * 100, a half going up (away from zero)
NearestMinor(price) ==
    IF price >= 0
    THEN (price + (DecimalDen \div 200)) \div (DecimalDen \div 100)
    ELSE 0 - (((0 - price) + (DecimalDen \div 200)) \div (DecimalDen \div 100))

\* C27: quantize_price returns amount * 100 rounded half-up to the nearest
\* integer for every amount, also one with more than two fractional
\* digits: a minor-unit value of exactly n + 0.5 yields n + 1.
C27_QuantizeRoundsHalfUp ==
    last.op = "quantize_price"
        => last.ret = [kind |-> "return", value |-> NearestMinor(last.arg.price)]

\* the auth endpoint's answer is not JSON or carries no access_token
NoTokenIn(auth) == ~auth.json \/ ~Has(auth.data, "access_token")

\* C28: when a request is answered with an auth failure and the token
\* refresh itself fails (the auth endpoint's answer is not JSON or has no
\* access_token), post_request fails in that step with the error that
\* wraps the auth error: the call is over, so no further gateway request
\* is made, and the cached token keeps its previous value.
C28_FailedRefreshFailsAtOnce ==
    [][(call.op = "post_request" /\ call.pc = "auth"
          /\ last'.op = "post_request" /\ NoTokenIn(last'.auth))
         => /\ IsAuthFailure(call.answer.data)
            /\ last'.ret = [kind |-> "raise", exc |-> "PayuApiError",
                            msg |-> "Unable to regain authorization token {e}"]
            /\ call'.op = "none"
            /\ token' = token]_vars

\* the second refresh of a call failed and left the first one's token cached
C28_SecondRefreshFailed ==
    /\ last.op = "post_request"
    /\ last.ret.kind = "raise"
    /\ Has(last, "auth")
    /\ NoTokenIn(last.auth)
    /\ token = "t1"

\* C29: a gateway response that is neither error = invalid_token nor
\* status.statusCode = UNAUTHORIZED ends post_request in the step that
\* receives it: it is returned unchanged, the cached token is not changed,
\* and the call has made one request per iteration and one call to the
\* token endpoint per earlier iteration, so a response to the first request
\* is returned after exactly one request and no call to the token endpoint.
C29_OtherResponseReturned ==
    [][(last.op = "none" /\ last'.op = "post_request" /\ last'.answer.json
          /\ ~(\/ /\ Has(last'.answer.data, "error")
                  /\ last'.answer.data["error"] = "invalid_token"
               \/ /\ Has(last'.answer.data, "status")
                  /\ Has(last'.answer.data["status"], "statusCode")
                  /\ last'.answer.data["status"]["statusCode"] = "UNAUTHORIZED"))
         => /\ call.pc = "recv"
            /\ last'.ret = [kind |-> "return", value |-> last'.answer.data]
            /\ token' = token
            /\ call.nreq = call.i
            /\ call.nauth = call.i - 1
            /\ call.i = 1 => (call.nreq = 1 /\ call.nauth = 0)]_vars

\* the first response was returned with the first token still cached
C29_ReturnedAtOnce ==
    /\ last.op = "post_request"
    /\ last.ret.kind = "return"
    /\ last.ret.value = last.answer.data
    /\ Has(last.ret.value, "orderId")
    /\ token = "t0"
    /\ ops = 1

\* the refund object of the response that refund got
Refund == last.answer.data["refund"]

\* the refund's amount as a Decimal differs from the amount asked for
AmountDiffers ==
    last.arg.given /\ Refund["amount"] * (DecimalDen \div 100) # last.arg.value

\* what the checks after the presence check make of the response, in the
\* order order id, refund status, currency, amount
MatchVerdict ==
    IF last.answer.data["orderId"] # last.pre.transaction_id
    THEN [kind |-> "raise", exc |-> "NotImplementedError", msg |-> "different order_id"]
    ELSE IF Refund["status"] = "CANCELED"
    THEN [kind |-> "raise", exc |-> "ValueError", msg |-> "canceled"]
    ELSE IF Refund["status"] = "FINALIZED"
    THEN [kind |-> "raise", exc |-> "NotImplementedError", msg |-> "FINALIZED already"]
    ELSE IF Refund["status"] # "PENDING"
    THEN [kind |-> "raise", exc |-> "PayuApiError", msg |-> "invalid status"]
    ELSE IF Refund["currencyCode"] # last.pre.currency
    THEN [kind |-> "raise", exc |-> "NotImplementedError", msg |-> "different currency"]
    ELSE IF AmountDiffers
    THEN [kind |-> "raise", exc |-> "NotImplementedError", msg |-> "different amount"]
    ELSE [kind |-> "return", value |-> 0]

\* the error of the checks that come before: status envelope, statusCode,
\* refund id, and the presence check, which present decides
Verdict(present) ==
    IF ~(Has(last.answer.data, "status")
           /\ Has(last.answer.data["status"], "statusCode"))
    THEN [kind |-> "raise", exc |-> "PayuApiError", msg |-> "invalid response"]
    ELSE IF last.answer.data["status"]["statusCode"] # "SUCCESS"
    THEN [kind |-> "raise", exc |-> "ValueError", msg |-> "failed"]
    ELSE IF ~(Has(last.answer.data, "refund") /\ Has(Refund, "refundId"))
    THEN [kind |-> "raise", exc |-> "PayuApiError", msg |-> "invalid response"]
    ELSE IF ~present
    THEN [kind |-> "raise", exc |-> "PayuApiError", msg |-> "invalid response"]
    ELSE MatchVerdict

\* orderId and the refund's status, currencyCode and amount are there
FieldsPresent ==
    /\ Has(last.answer.data, "orderId")
    /\ Has(Refund, "status")
    /\ Has(Refund, "currencyCode")
    /\ Has(Refund, "amount")

\* C30 as stated: refund returns zero exactly when the response has
\* statusCode SUCCESS, a refund id, the payment's orderId, refund status
\* PENDING, the payment's currency and, if an amount was requested, that
\* amount; otherwise it raises the error of the first failing check in the
\* order status envelope, statusCode, refund id, presence of orderId,
\* status, currency and amount, orderId match, refund status, currency
\* match, amount match.
C30_FirstFailingCheck ==
    RefundGotResponse => last.ret = Verdict(FieldsPresent)

\* C30: as above, where the presence check also fails for a currencyCode
\* that is not one of the supported currencies.
C30_FirstFailingCheckSupported ==
    RefundGotResponse =>
        last.ret = Verdict(FieldsPresent
                             /\ Refund["currencyCode"]
                                  \in {"PLN", "EUR", "USD", "CZK", "GBP"})

\* a canceled refund of another order was refused for the order id
C30_OtherOrderCanceled ==
    /\ RefundGotResponse
    /\ Has(last.answer.data, "orderId")
    /\ last.answer.data["orderId"] # last.pre.transaction_id
    /\ Has(last.answer.data, "refund")
    /\ Has(Refund, "status")
    /\ Refund["status"] = "CANCELED"
    /\ last.ret = [kind |-> "raise", exc |-> "NotImplementedError",
                   msg |-> "different order_id"]

\* the journal's statuses list of payment p
StatusesOf(p) ==
    IF Has(p.extra_data, "statuses") THEN p.extra_data["statuses"] ELSE <<>>

\* the notification reached the signature test and passed it
PassedVerification ==
    /\ Notified
    /\ last.request.body.json
    /\ SignedByGateway(last.request)

\* C31: every notification that passes signature verification is appended
\* exactly once to the end of the journal's statuses list, in memory and in
\* the database, whether reconciliation then fails or not; a notification
\* that fails verification is never appended.
C31_VerifiedIsJournaled ==
    Notified =>
        IF PassedVerification
        THEN /\ StatusesOf(payment) =
                    Append(StatusesOf(last.pre), last.request.body.data)
             /\ StatusesOf(db) = StatusesOf(payment)
        ELSE /\ StatusesOf(payment) = StatusesOf(last.pre)
             /\ StatusesOf(db) = StatusesOf(last.pre)

\* a second notification was journaled although its reconciliation failed
C31_FailedButJournaled ==
    /\ PassedVerification
    /\ last.ret.kind = "raise"
    /\ Len(StatusesOf(payment)) = 2
    /\ StatusesOf(db)[2] = last.request.body.data

\* the message of payment p ends with the text
MessageEndsWith(p, text) ==
    /\ Len(p.message) > 0
    /\ p.message[Len(p.message)] = text

\* C32: on a verified FINALIZED refund notification the refund's
\* description text is appended to the payment's message, and the stored
\* message still ends with that text once handling has finished, in the
\* full-refund branch (status becomes REFUNDED) as well as in the
\* partial-refund branch.
C32_DescriptionKept ==
    (VerifiedRefund /\ Refunded["status"] = "FINALIZED"
        /\ Refunded["currencyCode"] \in {"PLN", "EUR", "USD", "CZK", "GBP"})
      => /\ MessageEndsWith(payment, Refunded["reasonDescription"])
         /\ MessageEndsWith(db, Refunded["reasonDescription"])

\* caller c has its gateway response
Served(c) ==
    /\ call.of[c].pc = "done"
    /\ call.of[c].ret.kind = "return"
    /\ Has(call.of[c].ret.value, "orderId")

\* C33: when several callers share one provider and their post_request
\* calls interleave without any lock, and every token issued by the auth
\* endpoint stays valid, each caller sends no more requests than its retry
\* bound allows and never ends without a response, the cached token is at
\* all times a token that the auth endpoint issued, and each caller
\* eventually receives its gateway response.
C33_SharedCallersServed ==
    /\ [](\A c \in Callers :
            /\ call.of[c].nreq <= 4
            /\ call.of[c].pc = "done" => Served(c))
    /\ [](token \in {"t0", "t1", "t2"})
    /\ \A c \in Callers : <>Served(c)

\* two callers were both turned away with the expired token, refreshed to
\* different tokens, and both got their response
C33_BothRefreshed ==
    /\ \A c \in Callers : Served(c) /\ call.of[c].nauth = 1
    /\ call.of[1].sent # call.of[2].sent

\* handler h has applied a FINALIZED refund to the payment as it was at first
AppliedToFirst(h) ==
    /\ call.of[h].pc = "done"
    /\ call.of[h].ret = Ok
    /\ call.of[h].request.body.data["refund"]["status"] = "FINALIZED"
    /\ call.of[h].loaded = ConfirmedPayment

\* the amount of handler h's refund as a Decimal
RefundedBy(h) ==
    call.of[h].request.body.data["refund"]["amount"] * (DecimalDen \div 100)

\* C34: when two verified FINALIZED partial-refund notifications with
\* amounts a and b (a + b < captured_amount) are handled by interleaved
\* handlers, each of which loaded the payment record before the other
\* saved, the stored captured_amount ends as the initial value minus a
\* minus b.
C34_BothRefundsSubtracted ==
    (AppliedToFirst(1) /\ AppliedToFirst(2)
        /\ RefundedBy(1) + RefundedBy(2) < ConfirmedPayment.captured_amount)
      => db.captured_amount =
             ConfirmedPayment.captured_amount - RefundedBy(1) - RefundedBy(2)

\* C35: once a payment has become REFUNDED through a FINALIZED refund
\* notification, a COMPLETED order notification delivered afterwards does
\* not return it to CONFIRMED and does not raise captured_amount.
C35_RefundedStaysRefunded ==
    (VerifiedOrder /\ Ordered["status"] = "COMPLETED"
        /\ last.pre.status = "REFUNDED")
      => /\ payment.status # "CONFIRMED"
         /\ db.status # "CONFIRMED"
         /\ payment.captured_amount <= last.pre.captured_amount
         /\ db.captured_amount <= last.pre.captured_amount

\* C39: refund notifications never make captured_amount negative: the
\* subtraction is performed only when the refunded amount is strictly
\* smaller than captured_amount, so a positive captured_amount is still
\* strictly positive after a verified refund notification with a
\* non-negative amount, and so after any sequence of them.
C39_CapturedStaysPositive ==
    (VerifiedRefund /\ Refunded["amount"] >= 0)
      => /\ payment.captured_amount # last.pre.captured_amount
            => Refunded["amount"] * (DecimalDen \div 100) < last.pre.captured_amount
         /\ last.pre.captured_amount > 0
            => (payment.captured_amount > 0 /\ db.captured_amount > 0)
         /\ last.pre.captured_amount >= 0
            => (payment.captured_amount >= 0 /\ db.captured_amount >= 0)

\* the second of two partial refunds left one minor unit captured
C39_LastUnitLeft ==
    /\ VerifiedRefund
    /\ last.ret = Ok
    /\ last.pre.captured_amount < ConfirmedPayment.captured_amount
    /\ payment.captured_amount < last.pre.captured_amount
    /\ db.captured_amount = DecimalDen \div 100

\* C36: the cached access token changes only in a step of post_request in
\* which the token request succeeds; every attempt carries the token that
\* is cached at the moment the attempt is sent; and the attempt that
\* follows a successful refresh is sent after the cache has taken the
\* token that the auth endpoint issued.
C36_AttemptsCarryCachedToken ==
    [][/\ token' # token => (call.pc = "auth" /\ token' = "t1")
       /\ (call.op = "post_request" /\ call.pc = "send" /\ call'.op = "post_request")
            => (call'.sent = token /\ token' = token)
       /\ (call.op = "post_request" /\ call.pc = "auth" /\ call'.op = "post_request")
            => (call'.pc = "send" /\ token' = "t1")]_vars

\* the second attempt went out with the new token after the first token
\* was rejected
C36_NewTokenSent ==
    /\ call.op = "post_request"
    /\ call.pc = "recv"
    /\ call.nreq = 2
    /\ call.nauth = 1
    /\ call.sent = "t1"
    /\ ops = 0

\* create_order has ended, whatever post_request gave it
OrderEnded == last.op = "create_order"

\* the redirect, completed, CVV, 3DS and already-processed outcomes, told
\* by what create_order returns
OrderWentOn ==
    /\ last.ret.kind = "return"
    /\ \/ last.ret.value \in {"success", "continue_url", "payment_url", ""}
       \/ /\ Created
          /\ Has(Response, "redirectUri")
          /\ last.ret.value = Response["redirectUri"]

\* C38: create_order changes the payment status only by setting it to
\* ERROR, and only on the failure and business-error outcomes; on the
\* redirect, completed, CVV, 3DS and already-processed outcomes the status
\* is left as it was; create_order never changes captured_amount.
C38_StatusOnlyToError ==
    OrderEnded =>
        /\ \A q \in {payment, db} :
               /\ q.status \in {last.pre.status, "ERROR"}
               /\ q.captured_amount = last.pre.captured_amount
        /\ OrderWentOn => (payment.status = last.pre.status
                             /\ db.status = last.pre.status)
        /\ (Created /\ StatusCodeIs({"BUSINESS_ERROR"})) => payment.status = "ERROR"

\* a business error set a new payment to ERROR
C38_BusinessError ==
    /\ Created
    /\ StatusCodeIs({"BUSINESS_ERROR"})
    /\ last.pre.status = "WAITING"
    /\ payment.status = "ERROR"
    /\ db.status = "ERROR"
    /\ payment.fraud_status = "REJECT"

\* post_request gave up: the retry bound is exhausted or the refresh failed
PostRequestFailed(ret) ==
    /\ ret.kind = "raise"
    /\ ret.exc = "PayuApiError"
    /\ ret.msg \in {"Unable to regain authorization token",
                    "Unable to regain authorization token {e}"}

\* C37: when post_request fails (retry bound exhausted, or token refresh
\* failed) inside create_order or refund, the step that ends the handler
\* leaves the payment record entirely unchanged, in memory and in the
\* database: status, captured_amount, transaction_id and journal
\* (including refund_responses) keep their previous values.
C37_FailedRequestChangesNothing ==
    [][(call.op \in {"create_order", "refund"} /\ last'.op = call.op
          /\ PostRequestFailed(last'.ret))
         => (payment' = payment /\ db' = db /\ last'.pre = payment)]_vars

\* a refund gave up after the retry bound, with an earlier response still
\* the only one in the journal
C37_RefundGaveUp ==
    /\ last.op = "refund"
    /\ PostRequestFailed(last.ret)
    /\ last.ret.msg = "Unable to regain authorization token"
    /\ Len(RefundResponsesOf(payment)) = 1
    /\ payment = last.pre

====
